---- MODULE Spec2Model ----
(***************************************************************************)
(* Model of src/main.cpp: the GLFW/GLAD triangle example.  main() is a     *)
(* single thread; every program point of main() is a value of pc, named    *)
(* after the call that is about to be made.  The windowing layer, the      *)
(* function loader and the GL driver are external: their results are       *)
(* nondeterministic inputs of the step that calls them.                    *)
(***************************************************************************)
EXTENDS Integers, Sequences, FiniteSets, TLC

\* ---- bounds of the model ------------------------------------------------
MaxTime == 2        \* glfwGetTime() returns a value in 0..MaxTime
MaxQueue == 2       \* at most MaxQueue pending events per glfwPollEvents()
MaxErrors == 1      \* at most MaxErrors GLFW errors are reported in a run

\* ---- program constants --------------------------------------------------
GLFW_KEY_ESCAPE == 256
GLFW_PRESS == 1
EXIT_SUCCESS == 0
EXIT_FAILURE == 1
VertexCount == 3
WindowWidth == 640
WindowHeight == 480

\* exit status of a process killed by a fault (call through a null pointer)
Abnormal == EXIT_FAILURE + 138
NoStatus == 0 - 1
Undef == 0 - 1

\* keys and actions the windowing layer can deliver (Escape and one other
\* key; release, press, repeat)
Keys == {GLFW_KEY_ESCAPE, GLFW_KEY_ESCAPE - 191}
KeyActions == {GLFW_PRESS - 1, GLFW_PRESS, GLFW_PRESS + 1}

KeyEvent(k, a) == [type |-> "key", key |-> k, action |-> a]
CloseEvent == [type |-> "close", key |-> 0, action |-> 0]
NoEvent == [type |-> "none", key |-> 0, action |-> 0]
Events == {KeyEvent(k, a) : k \in Keys, a \in KeyActions} \cup {CloseEvent}

RECURSIVE SeqsUpTo(_, _)
SeqsUpTo(S, n) ==
    IF n = 0 THEN {<<>>}
    ELSE LET shorter == SeqsUpTo(S, n - 1)
         IN  shorter \cup {Append(q, e) : q \in {s \in shorter : Len(s) = n - 1}, e \in S}

\* framebuffer sizes glfwGetFramebufferSize can report: the created size,
\* a resized window, and a minimized window (0 x 0)
FbSizes == {<<WindowWidth, WindowHeight>>, <<WindowHeight, WindowWidth>>, <<0, 0>>}

VARIABLES
    pc,             \* program point of main()
    errorCallback,  \* glfwSetErrorCallback has installed error_callback
    keyCallback,    \* glfwSetKeyCallback has installed key_callback
    glfwInited,     \* the windowing layer is initialized
    window,         \* "none", "NULL", "open", "destroyed"
    shouldClose,    \* the window's close flag
    contextCurrent, \* the window's context is current on this thread
    swapInterval,
    gladResult,     \* return value of gladLoadGL (Undef before the call)
    glResolved,     \* the GL function pointers are non-null
    vertex_buffer,  \* number of vertices uploaded to the buffer
    vsCompiled, fsCompiled, programLinked,
    mvp_location,
    vertex_array,   \* the VAO has been configured
    width, height, ratio, m, p, mvp,   \* locals of the loop body
    angle,          \* the value glfwGetTime() returned in this iteration
    time,           \* the last value glfwGetTime() returned
    uniformArg,     \* the matrix last passed to glUniformMatrix4fv
    drawVerts,      \* the count argument of the last glDrawArrays
    queue,          \* events glfwPollEvents is dispatching
    lastEvent,      \* the event dispatched last
    exitStatus,
    stderrLines,    \* lines error_callback wrote to stderr
    lastCall,       \* the call made by the last step of main()
    iterCalls       \* the calls of the current loop iteration, in order

winVars == <<errorCallback, keyCallback, glfwInited, window, contextCurrent, swapInterval>>
glVars == <<gladResult, glResolved, vertex_buffer, vsCompiled, fsCompiled,
            programLinked, mvp_location, vertex_array>>
frameVars == <<width, height, ratio, m, p, mvp, angle>>
gpuVars == <<uniformArg, drawVerts>>
envVars == <<time, queue, lastEvent>>
vars == <<pc, winVars, glVars, frameVars, gpuVars, envVars, shouldClose,
          exitStatus, stderrLines, lastCall, iterCalls>>

\* ---- linmath, symbolically ----------------------------------------------
\* A ratio is <<kind, numerator, denominator>>; a matrix records the
\* rotation angle and the horizontal extent it was built from.
UndefRatio == <<"undef", 0, 0>>
UndefMat == [kind |-> "undef", angle |-> Undef, extent |-> UndefRatio]

mat4x4_identity == [kind |-> "model", angle |-> 0, extent |-> UndefRatio]
mat4x4_rotate_Z(M, a) == [M EXCEPT !.angle = M.angle + a]
mat4x4_ortho(r) == [kind |-> "ortho", angle |-> 0, extent |-> r]
mat4x4_mul(a, b) == [kind |-> "mvp", angle |-> b.angle, extent |-> a.extent]

\* width / (float)height: a finite quotient when height is not 0, otherwise
\* a non-finite value (the division by zero is not guarded)
RatioValues(w, h) ==
    IF h /= 0 THEN {<<"fin", w, h>>} ELSE {<<"inf", w, h>>, <<"nan", w, h>>}

\* ---- program points -----------------------------------------------------
\* program points at which main() is about to make an OpenGL call
GLCallSites == {"GenBuffers", "BindBuffer", "BufferData", "VertexShader",
                "FragmentShader", "Program", "Locations", "VertexArray",
                "Viewport", "Clear", "UseProgram", "Uniform",
                "BindVertexArray", "DrawArrays"}
\* program points at which main() is about to make (or is inside) a GLFW call
GLFWCallSites == {"Init", "WindowHints", "CreateWindow", "SetKeyCallback",
                  "MakeContextCurrent", "SwapInterval", "LoopTest",
                  "GetFramebufferSize", "RotateZ", "SwapBuffers", "PollEvents",
                  "Dispatch", "DestroyWindow", "Terminate"}
\* program points of the while loop (its test and its body)
LoopBody == {"GetFramebufferSize", "Ratio", "Viewport", "Clear", "Identity",
             "RotateZ", "Ortho", "Mul", "UseProgram", "Uniform",
             "BindVertexArray", "DrawArrays", "SwapBuffers", "PollEvents",
             "Dispatch"}
Running == LoopBody \cup {"LoopTest"}

GLCalls == {"glGenBuffers", "glBindBuffer", "glBufferData", "glCompileShader",
            "glLinkProgram", "glGetUniformLocation", "glVertexAttribPointer",
            "glViewport", "glClear", "glUseProgram", "glUniformMatrix4fv",
            "glBindVertexArray", "glDrawArrays"}

Init ==
    /\ pc = "SetErrorCallback"
    /\ errorCallback = FALSE /\ keyCallback = FALSE
    /\ glfwInited = FALSE /\ window = "none"
    /\ shouldClose = FALSE /\ contextCurrent = FALSE /\ swapInterval = 0
    /\ gladResult = Undef /\ glResolved = FALSE
    /\ vertex_buffer = 0
    /\ vsCompiled = FALSE /\ fsCompiled = FALSE /\ programLinked = FALSE
    /\ mvp_location = Undef /\ vertex_array = FALSE
    /\ width = Undef /\ height = Undef /\ ratio = UndefRatio
    /\ m = UndefMat /\ p = UndefMat /\ mvp = UndefMat /\ angle = Undef
    /\ time = 0 /\ uniformArg = UndefMat /\ drawVerts = 0
    /\ queue = <<>> /\ lastEvent = NoEvent
    /\ exitStatus = NoStatus /\ stderrLines = 0
    /\ lastCall = "none" /\ iterCalls = <<>>

\* a step of main() outside the loop body: moves to program point next
Step(next, call) ==
    /\ pc' = next
    /\ lastCall' = call
    /\ UNCHANGED <<iterCalls, exitStatus, stderrLines>>

\* a step of the loop body: also recorded in the iteration's call list
FrameStep(next, call) ==
    /\ pc' = next
    /\ lastCall' = call
    /\ iterCalls' = Append(iterCalls, call)
    /\ UNCHANGED <<exitStatus, stderrLines>>

\* ---- callbacks ------------------------------------------------------------
\* error_callback: fprintf(stderr, ...) and nothing else.  GLFW calls it from
\* inside whichever GLFW call detects the error, so main() stays where it is.
error_callback_closes ==
    /\ errorCallback
    /\ pc \in GLFWCallSites
    /\ stderrLines < MaxErrors
    /\ stderrLines' = stderrLines + 1
    /\ shouldClose' = TRUE
    /\ UNCHANGED <<pc, winVars, glVars, frameVars, gpuVars, envVars,
                   exitStatus, lastCall, iterCalls>>

error_callback ==
    /\ errorCallback
    /\ pc \in GLFWCallSites
    /\ stderrLines < MaxErrors
    /\ stderrLines' = stderrLines + 1
    /\ UNCHANGED <<pc, winVars, glVars, frameVars, gpuVars, envVars,
                   shouldClose, exitStatus, lastCall, iterCalls>>

\* key_callback: the new value of the close flag
key_callback_any_action(flag, key, action) ==
    IF key = GLFW_KEY_ESCAPE THEN TRUE ELSE flag

key_callback(flag, key, action) ==
    IF key = GLFW_KEY_ESCAPE /\ action = GLFW_PRESS THEN TRUE ELSE flag

\* ---- initialization -------------------------------------------------------
SetErrorCallback ==
    /\ pc = "SetErrorCallback"
    /\ errorCallback' = TRUE
    /\ Step("Init", "glfwSetErrorCallback")
    /\ UNCHANGED <<keyCallback, glfwInited, window, contextCurrent, swapInterval,
                   glVars, frameVars, gpuVars, envVars, shouldClose>>

\* if (!glfwInit()) exit(EXIT_FAILURE);
GlfwInit ==
    /\ pc = "Init"
    /\ \E ok \in BOOLEAN :
         /\ glfwInited' = ok
         /\ pc' = IF ok THEN "WindowHints" ELSE "exited"
         /\ exitStatus' = IF ok THEN exitStatus ELSE EXIT_FAILURE
    /\ lastCall' = "glfwInit"
    /\ UNCHANGED <<errorCallback, keyCallback, window, contextCurrent, swapInterval,
                   glVars, frameVars, gpuVars, envVars, shouldClose,
                   stderrLines, iterCalls>>

WindowHints ==
    /\ pc = "WindowHints"
    /\ Step("CreateWindow", "glfwWindowHint")
    /\ UNCHANGED <<winVars, glVars, frameVars, gpuVars, envVars, shouldClose>>

\* window = glfwCreateWindow(...); if (!window) { glfwTerminate(); exit(EXIT_FAILURE); }
CreateWindow ==
    /\ pc = "CreateWindow"
    /\ \E ok \in BOOLEAN :
         /\ window' = IF ok THEN "open" ELSE "NULL"
         /\ glfwInited' = ok
         /\ pc' = IF ok THEN "SetKeyCallback" ELSE "exited"
         /\ exitStatus' = IF ok THEN exitStatus ELSE EXIT_FAILURE
         /\ lastCall' = IF ok THEN "glfwCreateWindow" ELSE "glfwTerminate"
    /\ UNCHANGED <<errorCallback, keyCallback, contextCurrent, swapInterval,
                   glVars, frameVars, gpuVars, envVars, shouldClose,
                   stderrLines, iterCalls>>

SetKeyCallback ==
    /\ pc = "SetKeyCallback"
    /\ keyCallback' = TRUE
    /\ Step("MakeContextCurrent", "glfwSetKeyCallback")
    /\ UNCHANGED <<errorCallback, glfwInited, window, contextCurrent, swapInterval,
                   glVars, frameVars, gpuVars, envVars, shouldClose>>

MakeContextCurrent ==
    /\ pc = "MakeContextCurrent"
    /\ contextCurrent' = TRUE
    /\ Step("gladLoadGL", "glfwMakeContextCurrent")
    /\ UNCHANGED <<errorCallback, keyCallback, glfwInited, window, swapInterval,
                   glVars, frameVars, gpuVars, envVars, shouldClose>>

\* gladLoadGL(); -- the result is not looked at.  A successful load resolves
\* the function pointers; a failed one may or may not have resolved them.
LoadGL ==
    /\ pc = "gladLoadGL"
    /\ \E res \in {0, 1}, resolved \in BOOLEAN :
         /\ res = 1 => resolved
         /\ gladResult' = res
         /\ glResolved' = resolved
    /\ Step("SwapInterval", "gladLoadGL")
    /\ UNCHANGED <<winVars, vertex_buffer, vsCompiled, fsCompiled, programLinked,
                   mvp_location, vertex_array, frameVars, gpuVars, envVars,
                   shouldClose>>

SwapInterval ==
    /\ pc = "SwapInterval"
    /\ swapInterval' = 1
    /\ Step("GenBuffers", "glfwSwapInterval")
    /\ UNCHANGED <<errorCallback, keyCallback, glfwInited, window, contextCurrent,
                   glVars, frameVars, gpuVars, envVars, shouldClose>>

\* a GL call through an unresolved (null) function pointer: the process faults
NullCall ==
    /\ pc \in GLCallSites
    /\ ~glResolved
    /\ pc' = "crashed"
    /\ exitStatus' = Abnormal
    /\ lastCall' = "null call"
    /\ UNCHANGED <<winVars, glVars, frameVars, gpuVars, envVars, shouldClose,
                   stderrLines, iterCalls>>

GenBuffers ==
    /\ pc = "GenBuffers" /\ glResolved
    /\ Step("BindBuffer", "glGenBuffers")
    /\ UNCHANGED <<winVars, glVars, frameVars, gpuVars, envVars, shouldClose>>

BindBuffer ==
    /\ pc = "BindBuffer" /\ glResolved
    /\ Step("BufferData", "glBindBuffer")
    /\ UNCHANGED <<winVars, glVars, frameVars, gpuVars, envVars, shouldClose>>

\* glBufferData(GL_ARRAY_BUFFER, sizeof(vertices), vertices, GL_STATIC_DRAW)
BufferData ==
    /\ pc = "BufferData" /\ glResolved
    /\ vertex_buffer' = VertexCount
    /\ Step("VertexShader", "glBufferData")
    /\ UNCHANGED <<winVars, gladResult, glResolved, vsCompiled, fsCompiled,
                   programLinked, mvp_location, vertex_array, frameVars, gpuVars,
                   envVars, shouldClose>>

\* glCreateShader / glShaderSource / glCompileShader: the compile status is
\* the driver's; main() does not query it
VertexShader ==
    /\ pc = "VertexShader" /\ glResolved
    /\ \E ok \in BOOLEAN : vsCompiled' = ok
    /\ Step("FragmentShader", "glCompileShader")
    /\ UNCHANGED <<winVars, gladResult, glResolved, vertex_buffer, fsCompiled,
                   programLinked, mvp_location, vertex_array, frameVars, gpuVars,
                   envVars, shouldClose>>

FragmentShader ==
    /\ pc = "FragmentShader" /\ glResolved
    /\ \E ok \in BOOLEAN : fsCompiled' = ok
    /\ Step("Program", "glCompileShader")
    /\ UNCHANGED <<winVars, gladResult, glResolved, vertex_buffer, vsCompiled,
                   programLinked, mvp_location, vertex_array, frameVars, gpuVars,
                   envVars, shouldClose>>

\* glCreateProgram / glAttachShader x2 / glLinkProgram: linking fails when a
\* stage did not compile and may fail otherwise; main() does not query it
LinkProgram ==
    /\ pc = "Program" /\ glResolved
    /\ \E ok \in BOOLEAN :
         /\ ok => vsCompiled /\ fsCompiled
         /\ programLinked' = ok
    /\ Step("Locations", "glLinkProgram")
    /\ UNCHANGED <<winVars, gladResult, glResolved, vertex_buffer, vsCompiled,
                   fsCompiled, mvp_location, vertex_array, frameVars, gpuVars,
                   envVars, shouldClose>>

\* glGetUniformLocation(program, "MVP"): -1 when the program is not linked
Locations ==
    /\ pc = "Locations" /\ glResolved
    /\ mvp_location' = IF programLinked THEN 0 ELSE 0 - 1
    /\ Step("VertexArray", "glGetUniformLocation")
    /\ UNCHANGED <<winVars, gladResult, glResolved, vertex_buffer, vsCompiled,
                   fsCompiled, programLinked, vertex_array, frameVars, gpuVars,
                   envVars, shouldClose>>

VertexArray ==
    /\ pc = "VertexArray" /\ glResolved
    /\ vertex_array' = TRUE
    /\ Step("LoopTest", "glVertexAttribPointer")
    /\ UNCHANGED <<winVars, gladResult, glResolved, vertex_buffer, vsCompiled,
                   fsCompiled, programLinked, mvp_location, frameVars, gpuVars,
                   envVars, shouldClose>>

\* ---- the render loop -------------------------------------------------------
\* while (!glfwWindowShouldClose(window)): the body's locals are new objects
\* in every iteration
LoopTest_inverted ==
    /\ pc = "LoopTest"
    /\ pc' = IF shouldClose THEN "GetFramebufferSize" ELSE "DestroyWindow"
    /\ lastCall' = "glfwWindowShouldClose"
    /\ iterCalls' = <<>>
    /\ width' = Undef /\ height' = Undef /\ ratio' = UndefRatio
    /\ m' = UndefMat /\ p' = UndefMat /\ mvp' = UndefMat /\ angle' = Undef
    /\ UNCHANGED <<winVars, glVars, gpuVars, envVars, shouldClose, exitStatus,
                   stderrLines>>

LoopTest ==
    /\ pc = "LoopTest"
    /\ pc' = IF shouldClose THEN "DestroyWindow" ELSE "GetFramebufferSize"
    /\ lastCall' = "glfwWindowShouldClose"
    /\ iterCalls' = <<>>
    /\ width' = Undef /\ height' = Undef /\ ratio' = UndefRatio
    /\ m' = UndefMat /\ p' = UndefMat /\ mvp' = UndefMat /\ angle' = Undef
    /\ UNCHANGED <<winVars, glVars, gpuVars, envVars, shouldClose, exitStatus,
                   stderrLines>>

\* glfwGetFramebufferSize(window, &width, &height)
GetFramebufferSize ==
    /\ pc = "GetFramebufferSize"
    /\ \E s \in FbSizes : width' = s[1] /\ height' = s[2]
    /\ FrameStep("Ratio", "glfwGetFramebufferSize")
    /\ UNCHANGED <<winVars, glVars, ratio, m, p, mvp, angle, gpuVars, envVars,
                   shouldClose>>

\* const float ratio = width / (float)height;
Ratio ==
    /\ pc = "Ratio"
    /\ \E r \in RatioValues(width, height) : ratio' = r
    /\ FrameStep("Viewport", "ratio")
    /\ UNCHANGED <<winVars, glVars, width, height, m, p, mvp, angle, gpuVars,
                   envVars, shouldClose>>

Viewport ==
    /\ pc = "Viewport" /\ glResolved
    /\ FrameStep("Clear", "glViewport")
    /\ UNCHANGED <<winVars, glVars, frameVars, gpuVars, envVars, shouldClose>>

Clear ==
    /\ pc = "Clear" /\ glResolved
    /\ FrameStep("Identity", "glClear")
    /\ UNCHANGED <<winVars, glVars, frameVars, gpuVars, envVars, shouldClose>>

\* mat4x4_identity(m)
Identity ==
    /\ pc = "Identity"
    /\ m' = mat4x4_identity
    /\ FrameStep("RotateZ", "mat4x4_identity")
    /\ UNCHANGED <<winVars, glVars, width, height, ratio, p, mvp, angle, gpuVars,
                   envVars, shouldClose>>

\* mat4x4_rotate_Z(m, m, (float)glfwGetTime()): the clock never runs backwards
RotateZ ==
    /\ pc = "RotateZ"
    /\ \E t \in time .. MaxTime :
         /\ time' = t
         /\ angle' = t
         /\ m' = mat4x4_rotate_Z(m, t)
    /\ FrameStep("Ortho", "mat4x4_rotate_Z")
    /\ UNCHANGED <<winVars, glVars, width, height, ratio, p, mvp, gpuVars, queue,
                   lastEvent, shouldClose>>

\* mat4x4_ortho(p, -ratio, ratio, -1.f, 1.f, 1.f, -1.f)
Ortho ==
    /\ pc = "Ortho"
    /\ p' = mat4x4_ortho(ratio)
    /\ FrameStep("Mul", "mat4x4_ortho")
    /\ UNCHANGED <<winVars, glVars, width, height, ratio, m, mvp, angle, gpuVars,
                   envVars, shouldClose>>

\* mat4x4_mul(mvp, p, m)
Mul_stale ==
    /\ pc = "Mul"
    /\ mvp' = IF uniformArg /= UndefMat THEN uniformArg ELSE mat4x4_mul(p, m)
    /\ FrameStep("UseProgram", "mat4x4_mul")
    /\ UNCHANGED <<winVars, glVars, width, height, ratio, m, p, angle, gpuVars,
                   envVars, shouldClose>>

Mul ==
    /\ pc = "Mul"
    /\ mvp' = mat4x4_mul(p, m)
    /\ FrameStep("UseProgram", "mat4x4_mul")
    /\ UNCHANGED <<winVars, glVars, width, height, ratio, m, p, angle, gpuVars,
                   envVars, shouldClose>>

UseProgram ==
    /\ pc = "UseProgram" /\ glResolved
    /\ FrameStep("Uniform", "glUseProgram")
    /\ UNCHANGED <<winVars, glVars, frameVars, gpuVars, envVars, shouldClose>>

\* glUniformMatrix4fv(mvp_location, 1, GL_FALSE, (const GLfloat*)&mvp)
Uniform ==
    /\ pc = "Uniform" /\ glResolved
    /\ uniformArg' = mvp
    /\ FrameStep("BindVertexArray", "glUniformMatrix4fv")
    /\ UNCHANGED <<winVars, glVars, frameVars, drawVerts, envVars, shouldClose>>

BindVertexArray ==
    /\ pc = "BindVertexArray" /\ glResolved
    /\ FrameStep("DrawArrays", "glBindVertexArray")
    /\ UNCHANGED <<winVars, glVars, frameVars, gpuVars, envVars, shouldClose>>

\* glDrawArrays(GL_TRIANGLES, 0, 3)
DrawArrays ==
    /\ pc = "DrawArrays" /\ glResolved
    /\ drawVerts' = VertexCount
    /\ FrameStep("SwapBuffers", "glDrawArrays")
    /\ UNCHANGED <<winVars, glVars, frameVars, uniformArg, envVars, shouldClose>>

SwapBuffers_then_test ==
    /\ pc = "SwapBuffers"
    /\ FrameStep("LoopTest", "glfwSwapBuffers")
    /\ UNCHANGED <<winVars, glVars, frameVars, gpuVars, envVars, shouldClose>>

SwapBuffers ==
    /\ pc = "SwapBuffers"
    /\ FrameStep("PollEvents", "glfwSwapBuffers")
    /\ UNCHANGED <<winVars, glVars, frameVars, gpuVars, envVars, shouldClose>>

\* glfwPollEvents(): takes the pending events and dispatches them one by one
\* before it returns
PollEvents ==
    /\ pc = "PollEvents"
    /\ \E q \in SeqsUpTo(Events, MaxQueue) : queue' = q
    /\ FrameStep("Dispatch", "glfwPollEvents")
    /\ UNCHANGED <<winVars, glVars, frameVars, gpuVars, time, lastEvent,
                   shouldClose>>

\* inside glfwPollEvents: a key event goes to key_callback; a close request
\* sets the close flag in the windowing layer
DispatchEvent ==
    /\ pc = "Dispatch" /\ queue /= <<>>
    /\ LET e == Head(queue)
       IN  /\ shouldClose' =
                IF e.type = "close" THEN TRUE
                ELSE IF keyCallback THEN key_callback(shouldClose, e.key, e.action)
                ELSE shouldClose
           /\ lastEvent' = e
           /\ lastCall' = IF e.type = "close" THEN "close request" ELSE "key_callback"
    /\ queue' = Tail(queue)
    /\ UNCHANGED <<pc, winVars, glVars, frameVars, gpuVars, time, exitStatus,
                   stderrLines, iterCalls>>

\* glfwPollEvents returns; the loop body ends and the loop condition is next
PollReturn_into_body ==
    /\ pc = "Dispatch" /\ queue = <<>>
    /\ pc' = "GetFramebufferSize"
    /\ lastCall' = "glfwPollEvents"
    /\ iterCalls' = <<>>
    /\ UNCHANGED <<winVars, glVars, frameVars, gpuVars, envVars, shouldClose,
                   exitStatus, stderrLines>>

PollReturn ==
    /\ pc = "Dispatch" /\ queue = <<>>
    /\ Step("LoopTest", "glfwPollEvents")
    /\ UNCHANGED <<winVars, glVars, frameVars, gpuVars, envVars, shouldClose>>

\* ---- shutdown ---------------------------------------------------------------
DestroyWindow ==
    /\ pc = "DestroyWindow"
    /\ window' = "destroyed"
    /\ contextCurrent' = FALSE
    /\ Step("Terminate", "glfwDestroyWindow")
    /\ UNCHANGED <<errorCallback, keyCallback, glfwInited, swapInterval, glVars,
                   frameVars, gpuVars, envVars, shouldClose>>

Terminate ==
    /\ pc = "Terminate"
    /\ glfwInited' = FALSE
    /\ Step("Exit", "glfwTerminate")
    /\ UNCHANGED <<errorCallback, keyCallback, window, contextCurrent, swapInterval,
                   glVars, frameVars, gpuVars, envVars, shouldClose>>

\* exit(EXIT_SUCCESS)
Exit ==
    /\ pc = "Exit"
    /\ pc' = "exited"
    /\ exitStatus' = EXIT_SUCCESS
    /\ lastCall' = "exit"
    /\ UNCHANGED <<winVars, glVars, frameVars, gpuVars, envVars, shouldClose,
                   stderrLines, iterCalls>>

\* ---- the program ------------------------------------------------------------
\* the steps of main() and of the callbacks it installs
Main ==
    \/ SetErrorCallback \/ GlfwInit \/ WindowHints \/ CreateWindow
    \/ SetKeyCallback \/ MakeContextCurrent \/ LoadGL \/ SwapInterval
    \/ NullCall
    \/ GenBuffers \/ BindBuffer \/ BufferData
    \/ VertexShader \/ FragmentShader \/ LinkProgram \/ Locations \/ VertexArray
    \/ LoopTest \/ GetFramebufferSize \/ Ratio \/ Viewport \/ Clear
    \/ Identity \/ RotateZ \/ Ortho \/ Mul
    \/ UseProgram \/ Uniform \/ BindVertexArray \/ DrawArrays
    \/ SwapBuffers \/ PollEvents \/ DispatchEvent \/ PollReturn
    \/ DestroyWindow \/ Terminate \/ Exit

Next == Main \/ error_callback

Spec == Init /\ [][Next]_vars

\* main() is the only thread and none of its calls blocks: it keeps running
\* until it exits
FairSpec == Spec /\ WF_vars(Main)

\* ---- properties --------------------------------------------------------------
IsPrefix(s, t) == Len(s) <= Len(t) /\ SubSeq(t, 1, Len(s)) = s
Count(s, x) == Cardinality({i \in DOMAIN s : s[i] = x})
EscapePress == KeyEvent(GLFW_KEY_ESCAPE, GLFW_PRESS)
Terminated == pc \in {"exited", "crashed"}

\* C1: when the key callback is invoked with Escape and press the close flag
\* becomes true; invoked with any other key or action the flag keeps the
\* value it had.
C1_KeyCallbackEscapePress ==
    [][(pc = "Dispatch" /\ queue /= <<>> /\ queue' /= queue /\ Head(queue).type = "key")
         => shouldClose' = IF Head(queue) = EscapePress THEN TRUE ELSE shouldClose]_vars

C1_Witness ==
    lastCall = "key_callback" /\ lastEvent = EscapePress /\ shouldClose /\ queue /= <<>>

\* C2: a run that ended after glfwInit failed, after the window was not
\* created, or after the function loader failed has a nonzero exit status,
\* and status 0 is only the status of a clean shutdown.
C2_NonzeroOnInitFailure ==
    Terminated =>
        /\ (lastCall = "glfwInit" \/ window = "NULL" \/ gladResult = 0)
              => exitStatus /= EXIT_SUCCESS
        /\ exitStatus = EXIT_SUCCESS => lastCall = "exit" /\ window = "destroyed"

\* C3: the loop body runs only when the window, the context, the geometry
\* buffer and the shader program were all created successfully; after a
\* compile or link failure nothing is ever drawn.
C3_RunningOnlyAfterAllCreated ==
    /\ pc \in LoopBody =>
          /\ window = "open" /\ contextCurrent
          /\ vertex_buffer = VertexCount
          /\ vsCompiled /\ fsCompiled /\ programLinked
    /\ drawVerts /= 0 => (vsCompiled /\ fsCompiled /\ programLinked)

\* C4: whenever the aspect ratio has been computed, the height it was divided
\* by was not 0.
C4_NoDivisionByZeroHeight ==
    lastCall = "ratio" => height /= 0

\* C5: the loop is left only from its test and exactly when the close flag is
\* true; once the flag is true the program eventually exits with status 0
\* after destroying the window and then terminating the windowing layer, and
\* after the window is destroyed only glfwTerminate and exit are called.
C5_CloseFlagEndsLoopAndShutsDown ==
    /\ [][(pc \in Running /\ pc' \notin Running)
            => (pc = "LoopTest" /\ shouldClose /\ pc' = "DestroyWindow")]_vars
    /\ [][(pc = "LoopTest" /\ shouldClose /\ pc' /= pc) => pc' = "DestroyWindow"]_vars
    /\ [](window = "destroyed"
            => lastCall \in {"glfwDestroyWindow", "glfwTerminate", "exit"})
    /\ []((lastCall = "glfwTerminate" /\ pc = "Exit") => window = "destroyed")
    /\ []((pc = "exited" /\ exitStatus = EXIT_SUCCESS)
            => (window = "destroyed" /\ ~glfwInited))
    /\ (shouldClose ~> (pc = "exited" /\ exitStatus = EXIT_SUCCESS))

C5_Witness ==
    pc = "exited" /\ exitStatus = EXIT_SUCCESS /\ shouldClose /\ window = "destroyed"

\* the calls of one iteration in the order of the loop body
CodeOrder ==
    <<"glfwGetFramebufferSize", "ratio", "glViewport", "glClear",
      "mat4x4_identity", "mat4x4_rotate_Z", "mat4x4_ortho", "mat4x4_mul",
      "glUseProgram", "glUniformMatrix4fv", "glBindVertexArray", "glDrawArrays",
      "glfwSwapBuffers", "glfwPollEvents">>
\* the same calls with the event poll first
PollFirstOrder ==
    <<"glfwPollEvents">> \o SubSeq(CodeOrder, 1, Len(CodeOrder) - 1)

\* C6 (as stated): the calls of every iteration are made in the order poll,
\* size query, viewport, clear, matrices, program, uniform upload, vertex
\* array, one draw call of 3 vertices, swap; no draw call precedes the
\* iteration's poll.
C6_PollFirstOrder ==
    /\ IsPrefix(iterCalls, PollFirstOrder)
    /\ lastCall = "glDrawArrays" => Count(iterCalls, "glfwPollEvents") = 1

\* C6 (amended): the calls of every iteration are made in the order size
\* query, viewport, clear, matrices, program, uniform upload, vertex array,
\* one draw call of 3 vertices, swap, and the event poll last.
C6_PollLastOrder ==
    /\ IsPrefix(iterCalls, CodeOrder)
    /\ (pc = "LoopTest" /\ iterCalls /= <<>>) => iterCalls = CodeOrder
    /\ lastCall = "glDrawArrays" =>
          /\ drawVerts = VertexCount
          /\ Count(iterCalls, "glDrawArrays") = 1
          /\ Count(iterCalls, "glfwPollEvents") = 0

C6_Witness ==
    pc = "LoopTest" /\ iterCalls = CodeOrder /\ drawVerts = VertexCount

\* C7: the close flag changes only inside glfwPollEvents; when the poll
\* returns the loop condition is the next thing evaluated, and once the flag
\* is true no draw call and no buffer swap is made any more.
C7_FlagReadAtNextLoopTest ==
    /\ [][(shouldClose' /= shouldClose \/ lastEvent' /= lastEvent)
            => (pc = "Dispatch" /\ pc' = "Dispatch")]_vars
    /\ [][(pc = "Dispatch" /\ pc' /= pc) => pc' = "LoopTest"]_vars
    /\ [](shouldClose => lastCall \notin {"glDrawArrays", "glfwSwapBuffers"})

C7_Witness ==
    shouldClose /\ lastEvent = EscapePress /\ pc = "DestroyWindow" /\ drawVerts = VertexCount

\* C8: every OpenGL call is made after the context was made current and
\* after the function loader was called and succeeded.
C8_GLCallsOnlyAfterLoaderSucceeded ==
    lastCall \in GLCalls \cup {"null call"} => (contextCurrent /\ gladResult = 1)

\* C9: the matrix passed to the uniform upload is projection x model built
\* from the framebuffer size and the time read in the same iteration, and a
\* draw call follows exactly one upload of its iteration.
C9_MatrixIsFresh ==
    lastCall \in {"glUniformMatrix4fv", "glBindVertexArray", "glDrawArrays"} =>
        /\ width /= Undef /\ height /= Undef /\ angle /= Undef
        /\ ratio \in RatioValues(width, height)
        /\ uniformArg = [kind |-> "mvp", angle |-> angle, extent |-> ratio]
        /\ uniformArg = mvp
        /\ Count(iterCalls, "glUniformMatrix4fv") = 1
        /\ Count(iterCalls, "glfwGetFramebufferSize") = 1
        /\ Count(iterCalls, "mat4x4_rotate_Z") = 1

C9_Witness ==
    /\ lastCall = "glDrawArrays" /\ angle = MaxTime /\ height = WindowWidth
    /\ uniformArg = [kind |-> "mvp", angle |-> MaxTime,
                     extent |-> <<"fin", WindowHeight, WindowWidth>>]

\* C10: a step in which error_callback writes to stderr changes nothing
\* else: main() stays at its program point, the close flag, the exit status
\* and every resource keep their values; the process exits with
\* EXIT_FAILURE only when glfwInit failed or the window handle is NULL.
C10_ErrorCallbackOnlyLogs ==
    /\ [][stderrLines' /= stderrLines
            => UNCHANGED <<pc, shouldClose, exitStatus, winVars, glVars,
                           frameVars, gpuVars, envVars>>]_vars
    /\ [](exitStatus = EXIT_FAILURE
            => (pc = "exited" /\ (lastCall = "glfwInit" \/ window = "NULL")))

C10_Witness ==
    stderrLines > 0 /\ pc = "SwapBuffers" /\ ~shouldClose /\ exitStatus = NoStatus

====
